---- MODULE Spec2Model ----
(***************************************************************************)
(* Model of human_balance_evaluation/sparkpyrediskafkastreamtoconsole.py:  *)
(* a Spark Structured Streaming query that reads the Kafka topic           *)
(* redis-server from the earliest offset, parses the Redis change-event    *)
(* envelope, takes zSetEntries[0].element, base64-decodes it, parses the   *)
(* customer JSON, keeps the rows whose email and birthDay are not null and *)
(* appends (email, birthYear) to the console sink.                         *)
(*                                                                         *)
(* Text is a sequence of byte values.  The library calls of the script are *)
(* modelled by what they compute, with the semantics of Spark 3.0 - 3.2:   *)
(* from_json in its default PERMISSIVE mode (a malformed record yields a   *)
(* row of nulls), unbase64 by commons-codec's lenient decoder, array       *)
(* indexing with ANSI mode off (out of range yields null).                 *)
(***************************************************************************)
EXTENDS Integers, Sequences, FiniteSets, TLC

VARIABLES topic, state, offset, sink, provenance, consumed, retained, failure, diagnostics

vars == <<topic, state, offset, sink, provenance, consumed, retained, failure, diagnostics>>

(***************************************************************************)
(* Text: cast(value as string) and the string literals of the script.      *)
(***************************************************************************)

\* The printable ASCII characters, code 32 first (backslash and backtick by name).
Ascii ==
  << " ", "!", "\"", "#", "$", "%", "&", "'", "(", ")", "*", "+", ",", "-", ".", "/",
     "0", "1", "2", "3", "4", "5", "6", "7", "8", "9", ":", ";", "<", "=", ">", "?",
     "@", "A", "B", "C", "D", "E", "F", "G", "H", "I", "J", "K", "L", "M", "N", "O",
     "P", "Q", "R", "S", "T", "U", "V", "W", "X", "Y", "Z", "[", "backslash", "]", "^", "_",
     "backtick", "a", "b", "c", "d", "e", "f", "g", "h", "i", "j", "k", "l", "m", "n", "o",
     "p", "q", "r", "s", "t", "u", "v", "w", "x", "y", "z", "{", "|", "}", "~" >>

\* The byte value of each character.
OrdTable == [c \in {Ascii[i] : i \in 1..Len(Ascii)} |-> 31 + (CHOOSE i \in 1..Len(Ascii) : Ascii[i] = c)]

\* The bytes of a text written as a tuple of characters.
Txt(s) == [i \in 1..Len(s) |-> OrdTable[s[i]]]

\* The byte values of the characters the functions below look for.
SPACE == 32
BANG == 33
DQUOTE == 34
PLUS == 43
COMMA == 44
MINUS == 45
DOT == 46
SLASH == 47
DIGIT0 == 48
DIGIT9 == 57
COLON == 58
EQUALS == 61
UPPERA == 65
UPPERZ == 90
LBRACKET == 91
BACKSLASH == 92
RBRACKET == 93
UNDERSCORE == 95
LOWERA == 97
LOWERZ == 122
LBRACE == 123
RBRACE == 125
TILDE == 126

IsDigit(b) == b >= DIGIT0 /\ b <= DIGIT9

\* The least element of a non-empty set of positions.
Min(S) == CHOOSE i \in S : \A j \in S : i <= j

(***************************************************************************)
(* Base64: unbase64 (line 100) and the encoding the Redis source applies.  *)
(***************************************************************************)

\* The 6-bit value of a character of the base64 alphabet, -1 for any other
\* character.  The decoder's table also takes the URL-safe '-' and '_'.
B64Value(b) ==
  CASE b >= UPPERA /\ b <= UPPERZ -> b - UPPERA
    [] b >= LOWERA /\ b <= LOWERZ -> b - LOWERA + 26
    [] IsDigit(b) -> b - DIGIT0 + 52
    [] b = PLUS \/ b = MINUS -> 62
    [] b = SLASH \/ b = UNDERSCORE -> 63
    [] OTHER -> -1

\* The character of a 6-bit value in the standard alphabet.
B64Char(v) ==
  CASE v < 26 -> UPPERA + v
    [] v < 52 -> LOWERA + (v - 26)
    [] v < 62 -> DIGIT0 + (v - 52)
    [] v = 62 -> PLUS
    [] OTHER -> SLASH

\* The padded base64 text of a byte sequence: every three bytes give four
\* characters, and a last group of one or two bytes is padded with '='.
Base64Encode(bs) ==
  LET n == Len(bs)
      byte(i) == IF i <= n THEN bs[i] ELSE 0
      char(k) ==
        LET g == 3 * ((k - 1) \div 4)
            p == (k - 1) % 4
        IN CASE p = 0 -> B64Char(byte(g + 1) \div 4)
             [] p = 1 -> B64Char((byte(g + 1) % 4) * 16 + byte(g + 2) \div 16)
             [] p = 2 -> IF g + 2 > n THEN EQUALS
                         ELSE B64Char((byte(g + 2) % 16) * 4 + byte(g + 3) \div 64)
             [] OTHER -> IF g + 3 > n THEN EQUALS ELSE B64Char(byte(g + 3) % 64)
  IN [k \in 1..(4 * ((n + 2) \div 3)) |-> char(k)]

\* The 6-bit values the decoder accumulates: it stops at the first pad
\* character and skips every character outside the alphabet.
B64Sextets(t) ==
  LET pads == {i \in 1..Len(t) : t[i] = EQUALS}
      stop == IF pads = {} THEN Len(t) + 1 ELSE Min(pads)
      kept == SelectSeq(SubSeq(t, 1, stop - 1), LAMBDA b : B64Value(b) >= 0)
  IN [i \in 1..Len(kept) |-> B64Value(kept[i])]

\* Four 6-bit values give three bytes; a rest of three gives two bytes, a rest
\* of two gives one, a rest of one is discarded.
B64Bytes(v) ==
  LET byte(k) ==
        LET g == 4 * ((k - 1) \div 3)
            p == (k - 1) % 3
        IN CASE p = 0 -> v[g + 1] * 4 + v[g + 2] \div 16
             [] p = 1 -> (v[g + 2] % 16) * 16 + v[g + 3] \div 4
             [] OTHER -> (v[g + 3] % 4) * 64 + v[g + 4]
  IN [k \in 1..((Len(v) * 3) \div 4) |-> byte(k)]

\* A text the strict base64 grammar allows: groups of four characters of the
\* standard alphabet, the last group padded with one or two '='.
WellFormedBase64(t) ==
  /\ Len(t) % 4 = 0
  /\ \A i \in 1..Len(t) :
       \/ B64Value(t[i]) >= 0 /\ t[i] # MINUS /\ t[i] # UNDERSCORE
       \/ t[i] = EQUALS /\ i >= Len(t) - 1 /\ (i = Len(t) - 1 => t[Len(t)] = EQUALS)

(***************************************************************************)
(* JSON text, as the parser under from_json reads it (lines 70 and 112).   *)
(* A JSON value is [kind, text, names, items]: kind "str" with its text,   *)
(* "lit" (true, false, null or a number) with its text, "arr" with its     *)
(* items, "obj" with its member names and their values, in order.  Escape  *)
(* sequences and bytes outside printable ASCII are not modelled: a text    *)
(* holding one is read as malformed.                                       *)
(***************************************************************************)

JStr(t) == [kind |-> "str", text |-> t, names |-> <<>>, items |-> <<>>]
JLit(t) == [kind |-> "lit", text |-> t, names |-> <<>>, items |-> <<>>]
JArr(vs) == [kind |-> "arr", text |-> <<>>, names |-> <<>>, items |-> vs]
JObj(ns, vs) == [kind |-> "obj", text |-> <<>>, names |-> ns, items |-> vs]

\* The outcome of a parse that failed.
JFail == [ok |-> FALSE, val |-> JLit(<<>>), pos |-> 0]
\* The outcome of a parse that read value v and stopped before position p.
JOk(v, p) == [ok |-> TRUE, val |-> v, pos |-> p]

\* The first position from i on that holds no blank.
SkipWs(t, i) ==
  IF \A j \in i..Len(t) : t[j] = SPACE THEN Len(t) + 1 ELSE Min({j \in i..Len(t) : t[j] # SPACE})

\* The position of the quote closing the string whose content starts at j, 0 if
\* there is none or the content holds a byte that is not read.
StringEnd(t, j) ==
  LET quotes == {k \in j..Len(t) : t[k] = DQUOTE}
  IN IF quotes = {} THEN 0
     ELSE IF \E k \in j..Len(t) :
               /\ \A q \in quotes : k < q
               /\ t[k] < SPACE \/ t[k] > TILDE \/ t[k] = BACKSLASH
          THEN 0 ELSE Min(quotes)

\* A character of a bare token: a letter, a digit, a sign or a point.
IsTokenChar(b) ==
  \/ IsDigit(b)
  \/ b >= LOWERA /\ b <= LOWERZ
  \/ b >= UPPERA /\ b <= UPPERZ
  \/ b \in {PLUS, MINUS, DOT}

\* The position after the bare token that starts at j.
TokenEnd(t, j) ==
  IF \A k \in j..Len(t) : IsTokenChar(t[k]) THEN Len(t) + 1
  ELSE Min({k \in j..Len(t) : ~IsTokenChar(t[k])})

\* A JSON number without exponent: -?digits(.digits)?
IsNumber(t) ==
  LET u == IF t # <<>> /\ t[1] = MINUS THEN Tail(t) ELSE t
  IN /\ u # <<>>
     /\ \A i \in 1..Len(u) : IsDigit(u[i]) \/ u[i] = DOT
     /\ Cardinality({i \in 1..Len(u) : u[i] = DOT}) <= 1
     /\ IsDigit(u[1]) /\ IsDigit(u[Len(u)])

NullText == Txt(<<"n","u","l","l">>)
TrueText == Txt(<<"t","r","u","e">>)
FalseText == Txt(<<"f","a","l","s","e">>)

IsLiteral(t) == t \in {TrueText, FalseText, NullText} \/ IsNumber(t)

RECURSIVE ParseValue(_, _)
RECURSIVE ParseMembers(_, _, _, _)
RECURSIVE ParseItems(_, _, _)

\* The string that starts at j and is closed at e.
StringAt(t, j, e) == IF e = 0 THEN JFail ELSE JOk(JStr(SubSeq(t, j + 1, e - 1)), e + 1)

\* The bare token from j to before e.
LiteralAt(t, j, e) ==
  IF IsLiteral(SubSeq(t, j, e - 1)) THEN JOk(JLit(SubSeq(t, j, e - 1)), e) ELSE JFail

\* After a member or an item and the blanks that follow it, at d: the closing
\* character ends the object or array read, a comma is followed by the next one.
MemberNext(t, d, ns, vs) ==
  IF d > Len(t) THEN JFail
  ELSE IF t[d] = RBRACE THEN JOk(JObj(ns, vs), d + 1)
  ELSE IF t[d] = COMMA THEN ParseMembers(t, SkipWs(t, d + 1), ns, vs)
  ELSE JFail

ItemNext(t, d, vs) ==
  IF d > Len(t) THEN JFail
  ELSE IF t[d] = RBRACKET THEN JOk(JArr(vs), d + 1)
  ELSE IF t[d] = COMMA THEN ParseItems(t, d + 1, vs)
  ELSE JFail

\* The value r of a member has been parsed.
MemberValue(t, r, ns, vs) ==
  IF ~r.ok THEN JFail ELSE MemberNext(t, SkipWs(t, r.pos), ns, Append(vs, r.val))

\* The name of a member has been read; a colon is expected at c.
MemberColon(t, c, ns, vs) ==
  IF c > Len(t) \/ t[c] # COLON THEN JFail ELSE MemberValue(t, ParseValue(t, c + 1), ns, vs)

\* The name of a member starts at i and is closed at e.
MemberName(t, i, e, ns, vs) ==
  IF e = 0 THEN JFail
  ELSE MemberColon(t, SkipWs(t, e + 1), Append(ns, SubSeq(t, i + 1, e - 1)), vs)

\* The members of an object from position i on (a member name is expected
\* there), after the members ns/vs already read.
ParseMembers(t, i, ns, vs) ==
  IF i > Len(t) \/ t[i] # DQUOTE THEN JFail
  ELSE MemberName(t, i, StringEnd(t, i + 1), ns, vs)

\* The value r of an item has been parsed.
ItemValue(t, r, vs) ==
  IF ~r.ok THEN JFail ELSE ItemNext(t, SkipWs(t, r.pos), Append(vs, r.val))

\* The items of an array from position i on, after the items vs already read.
ParseItems(t, i, vs) == ItemValue(t, ParseValue(t, i), vs)

\* The object or array whose first member or item, or closing character, is at k.
ObjectAt(t, k) ==
  IF k <= Len(t) /\ t[k] = RBRACE THEN JOk(JObj(<<>>, <<>>), k + 1)
  ELSE ParseMembers(t, k, <<>>, <<>>)

ArrayAt(t, k) ==
  IF k <= Len(t) /\ t[k] = RBRACKET THEN JOk(JArr(<<>>), k + 1)
  ELSE ParseItems(t, k, <<>>)

\* The JSON value that starts at position j.
ValueAt(t, j) ==
  IF j > Len(t) THEN JFail
  ELSE IF t[j] = DQUOTE THEN StringAt(t, j, StringEnd(t, j + 1))
  ELSE IF t[j] = LBRACE THEN ObjectAt(t, SkipWs(t, j + 1))
  ELSE IF t[j] = LBRACKET THEN ArrayAt(t, SkipWs(t, j + 1))
  ELSE LiteralAt(t, j, TokenEnd(t, j))

\* The JSON value that starts at position i, blanks skipped.
ParseValue(t, i) == ValueAt(t, SkipWs(t, i))

\* The first JSON value of a text; what follows it is not read.
ParseJson(t) == ParseValue(t, 1)

(***************************************************************************)
(* Column values.  A nullable value is [isNull, v].                        *)
(***************************************************************************)

Null == [isNull |-> TRUE, v |-> <<>>]
Some(x) == [isNull |-> FALSE, v |-> x]

\* The outcome of a conversion: a value, or a failure of the conversion.
Converted(x) == [ok |-> TRUE, val |-> x]
ConvertFailed == [ok |-> FALSE, val |-> Null]

(***************************************************************************)
(* DateType: the date a string holds ([+-]y{4,7}-m{1,2}-d{1,2}), and the   *)
(* canonical text of a date, which the split of line 128 is applied to.    *)
(* A date is <<year, month, day>>.                                         *)
(***************************************************************************)

RECURSIVE Split(_, _)
\* The components of a text between the occurrences of a delimiter byte, the
\* empty ones kept.
Split(t, d) ==
  LET hits == {i \in 1..Len(t) : t[i] = d}
  IN IF hits = {} THEN <<t>>
     ELSE LET k == CHOOSE i \in hits : \A j \in hits : i <= j
          IN <<SubSeq(t, 1, k - 1)>> \o Split(SubSeq(t, k + 1, Len(t)), d)

RECURSIVE DigitsValue(_)
\* The number a text of digits denotes.
DigitsValue(t) ==
  IF t = <<>> THEN 0 ELSE 10 * DigitsValue(SubSeq(t, 1, Len(t) - 1)) + (t[Len(t)] - DIGIT0)

RECURSIVE NatText(_)
\* The decimal text of a natural number.
NatText(n) == IF n < 10 THEN <<DIGIT0 + n>> ELSE Append(NatText(n \div 10), DIGIT0 + (n % 10))

RECURSIVE PadLeft(_, _)
\* A text padded with zeros on the left to a width.
PadLeft(t, w) == IF Len(t) >= w THEN t ELSE PadLeft(<<DIGIT0>> \o t, w)

IsLeapYear(y) == y % 4 = 0 /\ (y % 100 # 0 \/ y % 400 = 0)

DaysInMonth(y, m) ==
  IF m = 2 THEN (IF IsLeapYear(y) THEN 29 ELSE 28)
  ELSE IF m \in {4, 6, 9, 11} THEN 30 ELSE 31

\* The date a text denotes, or a failed conversion.
ParseDate(t) ==
  LET signed == t # <<>> /\ t[1] \in {PLUS, MINUS}
      body == IF signed THEN Tail(t) ELSE t
      seg == Split(body, MINUS)
      digits(x, lo, hi) == Len(x) >= lo /\ Len(x) <= hi /\ \A i \in 1..Len(x) : IsDigit(x[i])
  IN IF Len(seg) # 3 \/ ~digits(seg[1], 4, 7) \/ ~digits(seg[2], 1, 2) \/ ~digits(seg[3], 1, 2)
     THEN ConvertFailed
     ELSE LET y == (IF signed /\ t[1] = MINUS THEN -1 ELSE 1) * DigitsValue(seg[1])
              m == DigitsValue(seg[2])
              d == DigitsValue(seg[3])
          IN IF m \in 1..12 /\ d >= 1 /\ d <= DaysInMonth(y, m)
             THEN Converted(Some(<<y, m, d>>))
             ELSE ConvertFailed

\* The text of a date: the year on four digits at least, signed when negative
\* or wider than four digits, then month and day on two digits.
DateText(date) ==
  LET y == date[1]
      year == IF y < 0 THEN <<MINUS>> \o PadLeft(NatText(-y), 4)
              ELSE IF y > 9999 THEN <<PLUS>> \o NatText(y)
              ELSE PadLeft(NatText(y), 4)
  IN year \o <<MINUS>> \o PadLeft(NatText(date[2]), 2)
          \o <<MINUS>> \o PadLeft(NatText(date[3]), 2)

(***************************************************************************)
(* from_json: a JSON value converted by a schema.  A schema is a sequence  *)
(* of fields [col, name, type, fields]: the column, the member name as it  *)
(* stands in the JSON text, the type ("string", "boolean", "date" or       *)
(* "array" of structs) and, for an array, the fields of its elements.      *)
(***************************************************************************)

StructField(col, name, type) == [col |-> col, name |-> Txt(name), type |-> type, fields |-> <<>>]
ArrayField(col, name, fields) == [col |-> col, name |-> Txt(name), type |-> "array", fields |-> fields]

\* A variant: the array read from the member zsetEntries.
redisMessageSchemaLowerCase ==
  << StructField("key", <<"k","e","y">>, "string"),
     StructField("value", <<"v","a","l","u","e">>, "string"),
     StructField("expiredType", <<"e","x","p","i","r","e","d","T","y","p","e">>, "string"),
     StructField("expiredValue", <<"e","x","p","i","r","e","d","V","a","l","u","e">>, "string"),
     StructField("existType", <<"e","x","i","s","t","T","y","p","e">>, "string"),
     StructField("ch", <<"c","h">>, "string"),
     StructField("incr", <<"i","n","c","r">>, "boolean"),
     ArrayField("zSetEntries", <<"z","s","e","t","E","n","t","r","i","e","s">>,
       << StructField("element", <<"e","l","e","m","e","n","t">>, "string"),
          StructField("score", <<"s","c","o","r","e">>, "string") >>) >>

redisMessageSchema ==
  << StructField("key", <<"k","e","y">>, "string"),
     StructField("value", <<"v","a","l","u","e">>, "string"),
     StructField("expiredType", <<"e","x","p","i","r","e","d","T","y","p","e">>, "string"),
     StructField("expiredValue", <<"e","x","p","i","r","e","d","V","a","l","u","e">>, "string"),
     StructField("existType", <<"e","x","i","s","t","T","y","p","e">>, "string"),
     StructField("ch", <<"c","h">>, "string"),
     StructField("incr", <<"i","n","c","r">>, "boolean"),
     ArrayField("zSetEntries", <<"z","S","e","t","E","n","t","r","i","e","s">>,
       << StructField("element", <<"e","l","e","m","e","n","t">>, "string"),
          StructField("score", <<"s","c","o","r","e">>, "string") >>) >>

customerSchema ==
  << StructField("customerName", <<"c","u","s","t","o","m","e","r","N","a","m","e">>, "string"),
     StructField("email", <<"e","m","a","i","l">>, "string"),
     StructField("phone", <<"p","h","o","n","e">>, "string"),
     StructField("birthDay", <<"b","i","r","t","h","D","a","y">>, "date") >>

\* A variant: from_json with the option mode set to FAILFAST.
ParseModeFailFast == "FAILFAST"

\* The mode from_json parses in: no option is passed, so the default.
ParseMode == "PERMISSIVE"

\* A variant: a session with spark.sql.ansi.enabled set.
AnsiEnabledOn == TRUE

\* spark.sql.ansi.enabled of the session: not set, so the default.
AnsiEnabled == FALSE

Columns(schema) == {schema[i].col : i \in 1..Len(schema)}

\* The row a record that cannot be parsed yields: every column null.
NullRow(schema) == [c \in Columns(schema) |-> Null]

IsJsonNull(jv) == jv.kind = "lit" /\ jv.text = NullText

RECURSIVE JsonText(_)
RECURSIVE JoinTexts(_, _)
\* Texts joined by commas.
JoinTexts(ts, i) ==
  IF i > Len(ts) THEN <<>>
  ELSE (IF i > 1 THEN <<COMMA>> ELSE <<>>) \o ts[i] \o JoinTexts(ts, i + 1)

\* The compact JSON text of a value: what a string column takes from a member
\* that is not a string.
JsonText(jv) ==
  CASE jv.kind = "str" -> <<DQUOTE>> \o jv.text \o <<DQUOTE>>
    [] jv.kind = "lit" -> jv.text
    [] jv.kind = "arr" ->
         <<LBRACKET>> \o JoinTexts([i \in 1..Len(jv.items) |-> JsonText(jv.items[i])], 1)
                      \o <<RBRACKET>>
    [] OTHER ->
         <<LBRACE>>
         \o JoinTexts([i \in 1..Len(jv.items) |->
                         <<DQUOTE>> \o jv.names[i] \o <<DQUOTE, COLON>>
                         \o JsonText(jv.items[i])], 1)
         \o <<RBRACE>>

RECURSIVE ConvertField(_, _)
RECURSIVE ConvertStruct(_, _, _)

\* A JSON value converted to the type of field f.
ConvertField(f, jv) ==
  IF IsJsonNull(jv) THEN Converted(Null)
  ELSE CASE f.type = "string" ->
              Converted(Some(IF jv.kind = "str" THEN jv.text ELSE JsonText(jv)))
         [] f.type = "boolean" ->
              IF jv.kind = "lit" /\ jv.text \in {TrueText, FalseText}
              THEN Converted(Some(jv.text)) ELSE ConvertFailed
         [] f.type = "date" ->
              IF jv.kind = "str" /\ jv.text # <<>> THEN ParseDate(jv.text) ELSE ConvertFailed
         [] OTHER ->
              IF jv.kind # "arr" THEN ConvertFailed
              ELSE LET rs == [i \in 1..Len(jv.items) |->
                                IF IsJsonNull(jv.items[i]) THEN Converted(Null)
                                ELSE ConvertStruct(f.fields, jv.items[i], FALSE)]
                   IN IF \A i \in 1..Len(rs) : rs[i].ok
                      THEN Converted(Some([i \in 1..Len(rs) |-> rs[i].val]))
                      ELSE ConvertFailed

\* A JSON object converted to a row of a schema.  Members are matched to the
\* fields by their exact names, the last member of a name deciding; a field
\* without member is null; members of other names are skipped.  A member that
\* cannot be converted leaves its column null in the root row, and fails the
\* conversion of a nested row.
ConvertStruct(schema, jv, isRoot) ==
  IF jv.kind # "obj" THEN ConvertFailed
  ELSE LET member(f) == {i \in 1..Len(jv.names) : jv.names[i] = f.name}
           last(f) == CHOOSE i \in member(f) : \A j \in member(f) : j <= i
           conv(f) == IF member(f) = {} THEN Converted(Null)
                      ELSE ConvertField(f, jv.items[last(f)])
           field(c) == schema[CHOOSE i \in 1..Len(schema) : schema[i].col = c]
       IN IF isRoot \/ \A i \in 1..Len(schema) : conv(schema[i]).ok
          THEN Converted(Some([c \in Columns(schema) |-> conv(field(c)).val]))
          ELSE ConvertFailed

\* A parse that gives no row: the text is no JSON text, or a JSON text that is
\* no object.
Malformed(parsed) == ~parsed.ok \/ parsed.val.kind # "obj"

\* The row of a parsed text, [threw, row].  A malformed text gives the row of
\* nulls in PERMISSIVE mode and fails the query in FAILFAST mode.
RowOf(parsed, schema) ==
  IF Malformed(parsed)
  THEN [threw |-> ParseMode = "FAILFAST", row |-> NullRow(schema)]
  ELSE [threw |-> FALSE, row |-> ConvertStruct(schema, parsed.val, TRUE).val.v]

\* from_json(column, schema) on one value of the column: [threw, row].  A null
\* column gives the row of nulls.
from_json(column, schema) ==
  IF column.isNull THEN [threw |-> FALSE, row |-> NullRow(schema)]
  ELSE RowOf(ParseJson(column.v), schema)

(***************************************************************************)
(* The stages of the query, on one record of the topic.                    *)
(***************************************************************************)

\* Lines 70-74: the row of RedisSortedSet for a value of the topic.
RedisSortedSet(value) == from_json(Some(value), redisMessageSchema)

\* A variant: the element of the last entry.
encodedCustomerLast(row) ==
  LET z == row.zSetEntries
  IN IF z.isNull \/ Len(z.v) = 0 \/ z.v[Len(z.v)].isNull THEN [threw |-> FALSE, val |-> Null]
     ELSE [threw |-> FALSE, val |-> z.v[Len(z.v)].v.element]

\* Lines 79-83: zSetEntries[0].element, [threw, val].  An index outside the
\* array gives null, and fails the query when ANSI mode is on.
encodedCustomer(row) ==
  LET z == row.zSetEntries
  IN IF z.isNull THEN [threw |-> FALSE, val |-> Null]
     ELSE IF Len(z.v) = 0 THEN [threw |-> AnsiEnabled, val |-> Null]
     ELSE IF z.v[1].isNull THEN [threw |-> FALSE, val |-> Null]
     ELSE [threw |-> FALSE, val |-> z.v[1].v.element]

\* A variant: a strict decoder, null for a text that is no base64.
unbase64Strict(column) ==
  IF column.isNull \/ ~WellFormedBase64(column.v) THEN Null
  ELSE Some(B64Bytes(B64Sextets(column.v)))

\* Line 100: unbase64(encodedCustomer) cast to a string.
unbase64(column) ==
  IF column.isNull THEN Null ELSE Some(B64Bytes(B64Sextets(column.v)))

\* Lines 112-116: the row of CustomerRecords for a decoded customer text.
CustomerRecords(customer) == from_json(customer, customerSchema)

\* A variant: a WHERE clause on email alone.
emailStreamingDF(row) == ~row.email.isNull

\* Lines 119-124: the WHERE clause of emailAndBirthDayStreamingDF.
emailAndBirthDayStreamingDF(row) == ~row.email.isNull /\ ~row.birthDay.isNull

\* Item i (from 0) of an array column; null outside the array.
getItem(array, i) == IF i + 1 \in 1..Len(array) THEN Some(array[i + 1]) ELSE Null

\* A variant: the first four characters of the text of the date.
birthYearFixedWidth(row) ==
  IF row.birthDay.isNull THEN Null ELSE Some(SubSeq(DateText(row.birthDay.v), 1, 4))

\* Line 128: split('birthDay', '-').getItem(0) on the text of the date.
\* A null birthDay gives a null birthYear.
birthYear(row) ==
  IF row.birthDay.isNull THEN Null ELSE getItem(Split(DateText(row.birthDay.v), MINUS), 0)

\* Lines 128-131: the row of emailAndBirthYearStreamingDF for a row that passed.
emailAndBirthYearStreamingDF(row) == [email |-> row.email, birthYear |-> birthYear(row)]

\* Lines 119-131 on a customer row: the rows written for it, none or one.
Projected(row) ==
  IF emailAndBirthDayStreamingDF(row) THEN <<emailAndBirthYearStreamingDF(row)>> ELSE <<>>

\* What the query computes for one record, after each stage: whether an
\* expression threw, the encoded customer, the customer row and the rows
\* written.  Each stage takes the result of the stage before it.
AfterCustomer(threw, encoded, parsed) ==
  [ threw |-> threw \/ parsed.threw,
    encodedCustomer |-> encoded,
    customer |-> parsed.row,
    rows |-> Projected(parsed.row) ]

AfterExtract(threw, extracted) ==
  AfterCustomer(threw \/ extracted.threw, extracted.val,
                CustomerRecords(unbase64(extracted.val)))

AfterEnvelope(parsed) == AfterExtract(parsed.threw, encodedCustomer(parsed.row))

\* Lines 70 to 131 on the value of one record of the topic.
Pipeline(value) == AfterEnvelope(RedisSortedSet(value))

(***************************************************************************)
(* The values published to the topic (the JSON formats documented at lines *)
(* 28-40 and 99), and the values the model draws its input from.           *)
(***************************************************************************)

JsonString(t) == <<DQUOTE>> \o t \o <<DQUOTE>>
JsonMember(name, valueText) == JsonString(Txt(name)) \o <<COLON>> \o valueText
JsonObject(members) == <<LBRACE>> \o JoinTexts(members, 1) \o <<RBRACE>>
JsonArray(items) == <<LBRACKET>> \o JoinTexts(items, 1) \o <<RBRACKET>>

\* The customer JSON of line 99; a null argument leaves its member out.
CustomerJson(name, email, phone, birthDay) ==
  LET m(n, x) == IF x.isNull THEN <<>> ELSE <<JsonMember(n, JsonString(x.v))>>
  IN JsonObject(m(<<"c","u","s","t","o","m","e","r","N","a","m","e">>, name)
                \o m(<<"e","m","a","i","l">>, email)
                \o m(<<"p","h","o","n","e">>, phone)
                \o m(<<"b","i","r","t","h","D","a","y">>, birthDay))

\* An entry of a sorted set: {"element":"<base64>","score":0.0}.
ScoredElement(element) ==
  JsonObject(<< JsonMember(<<"e","l","e","m","e","n","t">>, JsonString(element)),
                JsonMember(<<"s","c","o","r","e">>, Txt(<<"0",".","0">>)) >>)

\* The envelope of lines 28-40, with the elements of its two arrays; a null
\* argument leaves the array out.
Envelope(zSetEntries, zsetEntries) ==
  LET entries(n, es) ==
        IF es.isNull THEN <<>>
        ELSE <<JsonMember(n, JsonArray([i \in 1..Len(es.v) |-> ScoredElement(es.v[i])]))>>
  IN JsonObject(
       << JsonMember(<<"k","e","y">>, JsonString(Txt(<<"Q","3","V","z","d","G","9","t","Z","X","I","=">>))),
          JsonMember(<<"e","x","i","s","t","T","y","p","e">>, JsonString(Txt(<<"N","O","N","E">>))),
          JsonMember(<<"C","h">>, Txt(<<"f","a","l","s","e">>)),
          JsonMember(<<"I","n","c","r">>, Txt(<<"f","a","l","s","e">>)) >>
       \o entries(<<"z","S","e","t","E","n","t","r","i","e","s">>, zSetEntries)
       \o entries(<<"z","s","e","t","E","n","t","r","i","e","s">>, zsetEntries))

SamEmail == Txt(<<"s","a","m",".","t","e","s","t","@","t","e","s","t",".","c","o","m">>)
GailEmail == Txt(<<"g","a","i","l","@","t","e","s","t",".","c","o","m">>)
AnnEmail == Txt(<<"a","n","n","@","t","e","s","t",".","c","o","m">>)

\* {"customerName":"Sam Test","email":"sam.test@test.com","phone":"8015551212",
\*  "birthDay":"2001-01-03"}
Sam ==
  CustomerJson(Some(Txt(<<"S","a","m"," ","T","e","s","t">>)), Some(SamEmail),
               Some(Txt(<<"8","0","1","5","5","5","1","2","1","2">>)),
               Some(Txt(<<"2","0","0","1","-","0","1","-","0","3">>)))
\* A birthday whose month and day are not padded.
Gail == CustomerJson(Null, Some(GailEmail), Null, Some(Txt(<<"1","9","6","3","-","7","-","4">>)))
\* A birthday whose year is wider than four digits, month and day not padded.
Ann == CustomerJson(Null, Some(AnnEmail), Null, Some(Txt(<<"1","2","3","4","5","-","1","-","3">>)))
NoEmail == CustomerJson(Some(Txt(<<"S","a","m">>)), Null, Null, Some(Txt(<<"2","0","0","1","-","0","1","-","0","3">>)))
NoBirthDay == CustomerJson(Some(Txt(<<"S","a","m">>)), Some(SamEmail), Null, Null)
BadBirthDay == CustomerJson(Null, Some(SamEmail), Null, Some(Txt(<<"2","0","0","1","-","0","2","-","3","0">>)))

\* A text with the character c put in before position i.
Insert(t, i, c) == SubSeq(t, 1, i - 1) \o <<c>> \o SubSeq(t, i, Len(t))

\* The values a record of the topic has in the model.
Values ==
  << \* 1: the documented envelope, the same element in both arrays
     Envelope(Some(<<Base64Encode(Sam)>>), Some(<<Base64Encode(Sam)>>)),
     \* 2: as 1, with a second entry
     Envelope(Some(<<Base64Encode(Sam), Base64Encode(Gail)>>), Some(<<Base64Encode(Sam)>>)),
     \* 3: the two entries the other way round
     Envelope(Some(<<Base64Encode(Gail), Base64Encode(Sam)>>), Some(<<Base64Encode(Sam)>>)),
     \* 4: as 1, with another element in the redundant array
     Envelope(Some(<<Base64Encode(Sam)>>), Some(<<Base64Encode(Gail)>>)),
     \* 5: an element in the redundant array only
     Envelope(Null, Some(<<Base64Encode(Sam)>>)),
     \* 6: no entry
     Envelope(Some(<<>>), Some(<<>>)),
     \* 7: a customer without email
     Envelope(Some(<<Base64Encode(NoEmail)>>), Null),
     \* 8: a customer without birthDay
     Envelope(Some(<<Base64Encode(NoBirthDay)>>), Null),
     \* 9: a customer whose birthDay is no date
     Envelope(Some(<<Base64Encode(BadBirthDay)>>), Null),
     \* 10: a wide year, in the first of two entries
     Envelope(Some(<<Base64Encode(Ann), Base64Encode(Sam)>>), Null),
     \* 11: an envelope cut short
     SubSeq(Envelope(Some(<<Base64Encode(Sam)>>), Null), 1, 40),
     \* 12: an element that is no base64: a character outside the alphabet in it
     Envelope(Some(<<Insert(Base64Encode(Sam), 5, BANG)>>), Null),
     \* 13: an element that is no base64: cut short
     Envelope(Some(<<SubSeq(Base64Encode(Sam), 1, 30)>>), Null),
     \* 14: an element that is the base64 of a text that is no JSON
     Envelope(Some(<<Base64Encode(SubSeq(Sam, 1, 20))>>), Null) >>

(***************************************************************************)
(* The query.  topic[i] is the index in Values of the value of the record  *)
(* at offset i of the topic.                                               *)
(***************************************************************************)

MaxTopic == 3

\* What the query computes for each value.
Outcome == [id \in 1..Len(Values) |-> Pipeline(Values[id])]

\* A variant: a subscription that starts at the end of the topic.
startingOffsetsLatest == "latest"

\* Line 15: where the subscription starts reading.
startingOffsets == "earliest"

\* The first offset read of a topic that holds the records t.
InitialOffset(t) == IF startingOffsets = "earliest" THEN 1 ELSE Len(t) + 1

\* A variant: a row that is in the batch already is not added again.
WithRecordDistinct(batch, at, outcome) ==
  LET seen == {batch.out[k].row : k \in 1..Len(batch.out)}
      fresh == SelectSeq(outcome.rows, LAMBDA r : r \notin seen)
  IN [ threw |-> IF batch.threw = 0 /\ outcome.threw THEN at ELSE batch.threw,
       out |-> batch.out \o [k \in 1..Len(fresh) |-> [offset |-> at, row |-> fresh[k]]] ]

\* A batch with the outcome of the record at an offset added: whether an
\* expression threw on a record of the batch (threw is then the first such
\* offset, and 0 otherwise), and the rows, each with the offset of its record.
WithRecord(batch, at, outcome) ==
  [ threw |-> IF batch.threw = 0 /\ outcome.threw THEN at ELSE batch.threw,
    out |-> batch.out \o [k \in 1..Len(outcome.rows) |-> [offset |-> at, row |-> outcome.rows[k]]] ]

RECURSIVE BatchOutput(_, _, _)
\* The batch of the records at offsets from..to of t, in the order of the
\* offsets.
BatchOutput(t, from, to) ==
  IF from > to THEN [threw |-> 0, out |-> <<>>]
  ELSE WithRecord(BatchOutput(t, from, to - 1), to, Outcome[t[to]])

\* A variant: a batch written before what was written.
SinkPrepend(written, batch) == batch \o written

\* Line 136: outputMode('append'): a batch is written after what was written.
SinkAppend(written, batch) == written \o batch

Init ==
  /\ topic = <<>>
  /\ state = "Initializing"
  /\ offset = 1
  /\ sink = <<>>
  /\ provenance = <<>>
  /\ consumed = {}
  /\ retained = 0
  /\ failure = "none"
  /\ diagnostics = <<>>

\* A producer publishes a record to the topic.
Publish(id) ==
  /\ state \in {"Initializing", "Running"}
  /\ Len(topic) < MaxTopic
  /\ topic' = Append(topic, id)
  /\ UNCHANGED <<state, offset, sink, provenance, consumed, retained, failure, diagnostics>>

\* Lines 10-16 and 138: the query starts and subscribes to the topic.
Start ==
  /\ state = "Initializing"
  /\ state' = "Running"
  /\ offset' = InitialOffset(topic)
  /\ retained' = Len(topic)
  /\ UNCHANGED <<topic, sink, provenance, consumed, failure, diagnostics>>

\* Lines 134-138: the rows of a batch are written to the sink.  A batch an
\* expression threw in fails the query, and nothing of it is written.
WriteBatch(batch) ==
  IF batch.threw # 0
  THEN /\ state' = "Failed"
       /\ failure' = "RecordError"
       /\ diagnostics' = Append(diagnostics, [level |-> "ERROR", offset |-> batch.threw])
       /\ UNCHANGED <<offset, sink, provenance, consumed>>
  ELSE /\ sink' = SinkAppend(sink, [k \in 1..Len(batch.out) |-> batch.out[k].row])
       /\ provenance' = SinkAppend(provenance, [k \in 1..Len(batch.out) |-> batch.out[k].offset])
       /\ consumed' = consumed \cup (offset..Len(topic))
       /\ offset' = Len(topic) + 1
       /\ UNCHANGED <<state, failure, diagnostics>>

\* Lines 19-137: a micro-batch takes the records from offset on through the
\* stages and writes the rows to the sink.
ProcessBatch ==
  /\ state = "Running"
  /\ offset <= Len(topic)
  /\ WriteBatch(BatchOutput(topic, offset, Len(topic)))
  /\ UNCHANGED <<topic, retained>>

\* The source or the sink fails: the query stops with an exception.
AdapterFailure(cause) ==
  /\ state \in {"Initializing", "Running"}
  /\ state' = "Failed"
  /\ failure' = cause
  /\ diagnostics' = Append(diagnostics, [level |-> "ERROR", offset |-> 0])
  /\ UNCHANGED <<topic, offset, sink, provenance, consumed, retained>>

\* Line 139: the query is stopped and awaitTermination returns.
Stop ==
  /\ state = "Running"
  /\ state' = "Terminated"
  /\ UNCHANGED <<topic, offset, sink, provenance, consumed, retained, failure, diagnostics>>

Next ==
  \/ \E id \in DOMAIN Values : Publish(id)
  \/ Start
  \/ ProcessBatch
  \/ \E cause \in {"AdapterUnavailable", "SinkWriteFailure"} : AdapterFailure(cause)
  \/ Stop

Spec == Init /\ [][Next]_vars

\* The query keeps running its micro-batches as long as it can.
LiveSpec == Spec /\ WF_vars(Start) /\ WF_vars(ProcessBatch)

(***************************************************************************)
(* What a value of the topic holds, read off its JSON text without the     *)
(* schemas: the vocabulary of the properties below.                        *)
(***************************************************************************)

zSetEntriesName == Txt(<<"z","S","e","t","E","n","t","r","i","e","s">>)
zsetEntriesName == Txt(<<"z","s","e","t","E","n","t","r","i","e","s">>)
elementName == Txt(<<"e","l","e","m","e","n","t">>)
emailName == Txt(<<"e","m","a","i","l">>)
birthDayName == Txt(<<"b","i","r","t","h","D","a","y">>)

\* The positions of the members of a name in a JSON object.
MembersNamed(jv, name) == {i \in 1..Len(jv.names) : jv.names[i] = name}

\* A JSON object has a member of a name and of a kind.
HasMember(jv, name, kind) ==
  /\ jv.kind = "obj"
  /\ MembersNamed(jv, name) # {}
  /\ \A i \in MembersNamed(jv, name) : jv.items[i].kind = kind

\* The value of the member of a name (the first one).
Member(jv, name) == jv.items[Min(MembersNamed(jv, name))]

\* A JSON object without its members of a name.
WithoutMember(jv, name) ==
  LET keep == SelectSeq([i \in 1..Len(jv.names) |-> i], LAMBDA i : jv.names[i] # name)
  IN [kind |-> jv.kind, text |-> jv.text,
      names |-> [k \in 1..Len(keep) |-> jv.names[keep[k]]],
      items |-> [k \in 1..Len(keep) |-> jv.items[keep[k]]]]

\* The facts about one value.
FactsOf(value) ==
  LET p == ParseJson(value)
      malformedEnvelope == ~p.ok \/ p.val.kind # "obj"
      hasEntries == ~malformedEnvelope /\ HasMember(p.val, zSetEntriesName, "arr")
      entries == IF hasEntries THEN Member(p.val, zSetEntriesName).items ELSE <<>>
      hasElement == entries # <<>> /\ HasMember(entries[1], elementName, "str")
      element == IF hasElement THEN Member(entries[1], elementName).text ELSE <<>>
      decoded == B64Bytes(B64Sextets(element))
      q == ParseJson(decoded)
      malformedPayload == hasElement /\ (~q.ok \/ q.val.kind # "obj")
      readable == hasElement /\ ~malformedPayload
      hasEmail == readable /\ HasMember(q.val, emailName, "str")
      hasBirthDay == /\ readable
                     /\ HasMember(q.val, birthDayName, "str")
                     /\ ParseDate(Member(q.val, birthDayName).text).ok
  IN [ malformedEnvelope |-> malformedEnvelope,
       envelope |-> p.val,
       onlyRedundant |-> /\ ~malformedEnvelope
                         /\ MembersNamed(p.val, zSetEntriesName) = {}
                         /\ HasMember(p.val, zsetEntriesName, "arr")
                         /\ Member(p.val, zsetEntriesName).items # <<>>,
       hasEntries |-> hasEntries,
       entries |-> entries,
       emptyEntries |-> hasEntries /\ entries = <<>>,
       hasElement |-> hasElement,
       element |-> element,
       malformedBase64 |-> hasElement /\ ~WellFormedBase64(element),
       malformedPayload |-> malformedPayload,
       hasEmail |-> hasEmail,
       email |-> IF hasEmail THEN Member(q.val, emailName).text ELSE <<>>,
       hasBirthDay |-> hasBirthDay,
       birthDay |-> IF hasBirthDay THEN ParseDate(Member(q.val, birthDayName).text).val.v
                    ELSE <<>> ]

Facts == [id \in DOMAIN Values |-> FactsOf(Values[id])]

\* Two values are the same text.
SameValue == [a \in DOMAIN Values |-> [b \in DOMAIN Values |-> Values[a] = Values[b]]]

\* Two envelopes with entries agree on everything but their entries from
\* index 1 on.
AgreeOnFirstEntry ==
  [a \in DOMAIN Values |-> [b \in DOMAIN Values |->
     /\ Facts[a].entries # <<>> /\ Facts[b].entries # <<>>
     /\ Facts[a].entries[1] = Facts[b].entries[1]
     /\ WithoutMember(Facts[a].envelope, zSetEntriesName)
          = WithoutMember(Facts[b].envelope, zSetEntriesName)]]

\* Two envelopes agree on everything but the content of the redundant array.
AgreeButRedundant ==
  [a \in DOMAIN Values |-> [b \in DOMAIN Values |->
     /\ ~Facts[a].malformedEnvelope /\ ~Facts[b].malformedEnvelope
     /\ HasMember(Facts[a].envelope, zsetEntriesName, "arr")
     /\ HasMember(Facts[b].envelope, zsetEntriesName, "arr")
     /\ WithoutMember(Facts[a].envelope, zsetEntriesName)
          = WithoutMember(Facts[b].envelope, zsetEntriesName)]]

\* The record at offset i has a row in the sink.
Emitted(i) == \E k \in 1..Len(provenance) : provenance[k] = i

\* The rows of the sink that come from the record at offset i.
OutputAt(i) == {sink[k] : k \in {k \in 1..Len(sink) : provenance[k] = i}}

\* The facts about, and the outcome of, the record at offset i.
FactsAt(i) == Facts[topic[i]]
OutcomeAt(i) == Outcome[topic[i]]

\* A diagnostic has been logged about the record at offset i.
Logged(i) == \E k \in 1..Len(diagnostics) : diagnostics[k].offset = i

\* A text up to, and not including, its first '-'; the whole text without one.
UpToFirstDash(t) == SubSeq(t, 1, Min({i \in 1..Len(t) : t[i] = MINUS} \cup {Len(t) + 1}) - 1)

\* The record at offset i holds a customer with an email and a birthDay.
Valid(i) == FactsAt(i).hasEmail /\ FactsAt(i).hasBirthDay

\* The causes of a failure of an adapter.
AdapterCauses == {"AdapterUnavailable", "SinkWriteFailure"}

(***************************************************************************)
(* The properties.                                                         *)
(***************************************************************************)

\* C1: a record that was consumed has a row in the sink if and only if the
\* email and the birthDay of its customer record are both non-null; a null
\* email alone, or a null birthDay alone, keeps the record out of the sink.
C1_NullFilter ==
  \A i \in consumed :
    Emitted(i) <=> (~OutcomeAt(i).customer.email.isNull /\ ~OutcomeAt(i).customer.birthDay.isNull)

\* Records with a null email only, with a null birthDay only and with both
\* non-null have been consumed.
C1_Witness ==
  /\ \E i \in consumed :
       OutcomeAt(i).customer.email.isNull /\ ~OutcomeAt(i).customer.birthDay.isNull
  /\ \E i \in consumed :
       ~OutcomeAt(i).customer.email.isNull /\ OutcomeAt(i).customer.birthDay.isNull
  /\ \E i \in consumed : Emitted(i)

\* C2: for an envelope whose entries hold an element at index 0, the decoder
\* and the extractor yield that element; two envelopes that agree on
\* entries[0] and differ only in the entries from index 1 on have the same
\* output.
C2_FirstEntryOnly ==
  /\ \A i \in consumed :
       FactsAt(i).hasElement => OutcomeAt(i).encodedCustomer = Some(FactsAt(i).element)
  /\ \A i, j \in consumed :
       AgreeOnFirstEntry[topic[i]][topic[j]]
         => (Emitted(i) <=> Emitted(j)) /\ OutputAt(i) = OutputAt(j)

\* Two envelopes that differ in their later entries only have been consumed,
\* and both have a row in the sink.
C2_Witness ==
  \E i, j \in consumed :
    /\ AgreeOnFirstEntry[topic[i]][topic[j]]
    /\ Len(FactsAt(i).entries) # Len(FactsAt(j).entries)
    /\ Emitted(i) /\ Emitted(j)

\* C3 as stated: an envelope without entries is an error of its record, one
\* that is logged, and the null is not passed on to the later stages.
C3_MissingElementError ==
  \A i \in consumed : FactsAt(i).emptyEntries => Logged(i)

\* C3, amended: an envelope without entries gives a null encodedCustomer that
\* is passed on: the customer row is all nulls, the filter drops it, nothing
\* is written or logged for the record, and the valid records after it are
\* written.
C3_EmptyEntriesNull ==
  /\ \A i \in 1..Len(topic) : FactsAt(i).emptyEntries => ~Logged(i)
  /\ \A i \in consumed :
       FactsAt(i).emptyEntries
         => /\ ~OutcomeAt(i).threw
            /\ OutcomeAt(i).encodedCustomer.isNull
            /\ OutcomeAt(i).customer = NullRow(customerSchema)
            /\ ~Emitted(i)
            /\ \A j \in consumed : j > i /\ Valid(j) => Emitted(j)

\* An envelope without entries has been consumed, and a valid record after it
\* is in the sink.
C3_Witness ==
  \E i, j \in consumed : i < j /\ FactsAt(i).emptyEntries /\ Valid(j) /\ Emitted(j)

\* C4 as stated: a record with a malformed envelope, a missing element, an
\* element that is no base64 or a malformed payload has no row in the sink,
\* the valid records are written, and the query fails of an adapter only.
C4_FailingRecordNoOutput ==
  /\ \A i \in consumed :
       (\/ FactsAt(i).malformedEnvelope
        \/ ~FactsAt(i).hasElement
        \/ FactsAt(i).malformedBase64
        \/ FactsAt(i).malformedPayload) => ~Emitted(i)
  /\ state = "Failed" => failure \in AdapterCauses

\* C4, amended: a record with a malformed envelope, a missing element or a
\* payload that is malformed after the lenient decoding has no row in the
\* sink and fails nothing; an element that is no base64 does not by itself
\* keep its record out; every valid record that was consumed is written,
\* whatever came before it; the query fails of an adapter only.
C4_NoRecordFatal ==
  /\ \A i \in consumed :
       (\/ FactsAt(i).malformedEnvelope
        \/ ~FactsAt(i).hasElement
        \/ FactsAt(i).malformedPayload) => ~Emitted(i) /\ ~OutcomeAt(i).threw
  /\ \A i \in consumed : Valid(i) => Emitted(i)
  /\ state = "Failed" => failure \in AdapterCauses
  /\ \A k \in 1..Len(diagnostics) : diagnostics[k].offset = 0

\* A malformed envelope has been consumed, a valid record after it is in the
\* sink, and the query is still running.
C4_Witness ==
  /\ state = "Running"
  /\ \E i, j \in consumed :
       i < j /\ FactsAt(i).malformedEnvelope /\ ~Emitted(i) /\ Valid(j) /\ Emitted(j)

\* C5: a row of the sink carries the email of its customer unchanged and, as
\* birthYear, the text of the customer's birthDay up to its first '-', of
\* whatever width, and nothing else.
C5_BirthYear ==
  \A k \in 1..Len(sink) :
    /\ DOMAIN sink[k] = {"email", "birthYear"}
    /\ sink[k].email = Some(FactsAt(provenance[k]).email)
    /\ sink[k].birthYear = Some(UpToFirstDash(DateText(FactsAt(provenance[k]).birthDay)))

\* A row with a birthYear wider than four characters and a row with one of
\* four characters are in the sink.
C5_Witness ==
  /\ \E k \in 1..Len(sink) : Len(sink[k].birthYear.v) > 4
  /\ \E k \in 1..Len(sink) : Len(sink[k].birthYear.v) = 4

\* C6 as stated: a record whose element is no base64 has no row in the sink
\* and exactly one diagnostic.
C6_MalformedBase64Dropped ==
  \A i \in consumed :
    FactsAt(i).malformedBase64
      => /\ ~Emitted(i)
         /\ Cardinality({k \in 1..Len(diagnostics) : diagnostics[k].offset = i}) = 1

\* C6, amended: an element that is no base64 is decoded leniently and nothing
\* is logged for its record; the record has a row in the sink exactly when the
\* decoded text is a customer with an email and a birthDay.
C6_MalformedBase64Lenient ==
  \A i \in consumed :
    FactsAt(i).malformedBase64
      => /\ ~Logged(i)
         /\ OutcomeAt(i).customer.email.isNull = ~FactsAt(i).hasEmail
         /\ Emitted(i) <=> Valid(i)

\* A record whose element is no base64 is in the sink, and another such
\* record has been consumed and is not.
C6_Witness ==
  /\ \E i \in consumed : FactsAt(i).malformedBase64 /\ Emitted(i)
  /\ \E i \in consumed : FactsAt(i).malformedBase64 /\ ~Emitted(i)

\* C7: two records of the same value that have been consumed have the same
\* result, a row of the same content each or no row each, whatever was
\* consumed before or between them.
C7_Deterministic ==
  \A i, j \in consumed :
    SameValue[topic[i]][topic[j]]
      => /\ Emitted(i) <=> Emitted(j)
         /\ OutputAt(i) = OutputAt(j)
         /\ Cardinality({k \in 1..Len(provenance) : provenance[k] = i})
              = Cardinality({k \in 1..Len(provenance) : provenance[k] = j})

\* A value has been consumed twice with another value between, and is in the
\* sink twice.
C7_Witness ==
  /\ Len(topic) = 3 /\ topic[1] = topic[3] /\ topic[2] # topic[1]
  /\ consumed = {1, 2, 3}
  /\ Emitted(1) /\ Emitted(3)

\* C8: a step only appends to the sink, leaving what was written as it was;
\* the rows are in the order of the offsets of their records, and a record
\* has one row at most.
C8_AppendOnly ==
  [][ /\ Len(sink') >= Len(sink)
      /\ SubSeq(sink', 1, Len(sink)) = sink
      /\ SubSeq(provenance', 1, Len(provenance)) = provenance
      /\ Len(provenance') = Len(sink')
      /\ \A k \in 1..(Len(provenance') - 1) : provenance'[k] < provenance'[k + 1]
      /\ \A k \in 1..Len(provenance') : provenance'[k] \in consumed' ]_vars

\* Two batches have been written, a row each, and a record between them has
\* no row.
C8_Witness ==
  /\ Len(sink) = 2 /\ provenance = <<1, 3>>
  /\ consumed = {1, 2, 3}
  /\ sink[1] # sink[2]

\* C9: every record the topic retains when the query starts is eventually
\* consumed, unless the query fails or is stopped.
C9_EarliestOffset ==
  \A k \in 1..MaxTopic :
    (state = "Running" /\ k <= retained) ~> (k \in consumed \/ state \in {"Failed", "Terminated"})

\* The query started on a topic that retained records, and has consumed and
\* written the first of them.
C9_Witness == retained >= 2 /\ {1, 2} \subseteq consumed /\ Emitted(1) /\ state = "Running"

\* C10: two envelopes that differ in the redundant array zsetEntries only
\* have the same output, and an envelope with a payload in the redundant array
\* only has no row in the sink.
C10_CanonicalArrayOnly ==
  /\ \A i, j \in consumed :
       AgreeButRedundant[topic[i]][topic[j]]
         => (Emitted(i) <=> Emitted(j)) /\ OutputAt(i) = OutputAt(j)
  /\ \A i \in consumed : FactsAt(i).onlyRedundant => ~Emitted(i)

\* Two envelopes with different redundant arrays are in the sink, and an
\* envelope with a payload in the redundant array only has been consumed.
C10_Witness ==
  /\ \E i, j \in consumed :
       /\ topic[i] # topic[j]
       /\ AgreeButRedundant[topic[i]][topic[j]]
       /\ Emitted(i) /\ Emitted(j)
  /\ \E i \in consumed : FactsAt(i).onlyRedundant
====
